---- MODULE Spec2Model ----
(***************************************************************************)
(* The browser client of the transcription job pipeline: the App           *)
(* component (frontend/src/App.tsx) and the useJobPoller hook              *)
(* (frontend/src/hooks/useJobPoller.ts), together with the HTTP requests   *)
(* they have in flight and the job records of the backend they talk to.    *)
(***************************************************************************)
EXTENDS Integers, Sequences, FiniteSets, Bags, TLC

\* ---------------------------------------------------------------- bounds
MaxJobs == 2        \* jobs the backend creates
MaxProgress == 1    \* progress is k / MaxProgress, k \in 0..MaxProgress
MaxPolls == 2       \* GET /jobs/{id} requests in flight at once
MaxPolled == 3      \* GET /jobs/{id} requests sent by one run of the poller effect
MaxBurns == 2       \* POST /jobs/{id}/burn requests in flight at once
MaxLog == 1         \* entries of a job's server log (specification Spec)
MaxExtraLog == 2    \* entries appended beyond the window (specification SpecLogs)
MaxSpeakers == 3    \* largest number typed into a speakers field (at most 8)
MaxSeconds == 121   \* largest eta_seconds a snapshot carries, in seconds

\* ------------------------------------------------------ program constants
LogWindow == 30     \* Array.prototype.slice(-30) of the logs merge effect
SecondsPerMinute == 60  \* seconds / 60 and seconds % 60 of formatDuration
TicksPerSecond == 4     \* durations are held in quarters of a second

Null == "null"      \* null / undefined of a string-valued state
NoJob == 0          \* jobId === undefined

TerminalStatus == {"succeeded", "failed", "cancelled"}
JobStatus == {"queued", "running"} \cup TerminalStatus

IsTerminal(status) == status \in TerminalStatus

\* payload.status === 'succeeded' || ... 'failed' || ... 'cancelled'
StopsPolling(status) == status = "succeeded" \/ status = "failed" \/ status = "cancelled"

\* ------------------------------------------------------------ log entries
\* The i-th entry a job's pipeline appends to its log.
Entry(i) == [timestamp |-> "t" \o ToString(i), message |-> "stage"]

ServerLog(n) == [i \in 1..n |-> Entry(i)]

\* `${entry.timestamp}-${entry.message}`
LogKey(entry) == entry.timestamp \o "-" \o entry.message

\* Array.from(map.values()) after map.set(LogKey(entry), entry) for every
\* entry in order: a Map iterates its keys in the order of their first
\* insertion, and a key set again keeps its place and takes the new value.
MapValues(entries) ==
    LET n == Len(entries)
        key == [i \in 1..n |-> LogKey(entries[i])]
        first == {i \in 1..n : \A k \in 1..(i - 1) : key[k] # key[i]}
        last(i) == CHOOSE k \in i..n :
                      key[k] = key[i] /\ \A m \in (k + 1)..n : key[m] # key[i]
        nth(p) == CHOOSE i \in first : Cardinality({k \in first : k < i}) = p - 1
    IN  [p \in 1..Cardinality(first) |-> entries[last(nth(p))]]

\* Array.prototype.slice(-n)
SliceLast(s, n) ==
    IF Len(s) <= n THEN s ELSE SubSeq(s, Len(s) - n + 1, Len(s))

\* (mutant) the merge without its slice(-30).
MergeLogsUnbounded(prev, incoming) == MapValues(prev \o incoming)

\* The updater passed to setLogs by the logs merge effect.
MergeLogs(prev, incoming) ==
    SliceLast(MapValues(prev \o incoming), LogWindow)

\* --------------------------------------------------------------- state
VARIABLES
    server,        \* backend: job id -> [status, progress, nlogs]
    jobId,         \* App: useState jobId
    submitting,    \* App: useState submitting
    submitError,   \* App: useState submitError
    burnState,     \* App: useState burnState
    logs,          \* App: useState logs
    activeTab,     \* App: useState activeTab
    localFile,     \* App: useState localFile (TRUE: a file is chosen)
    youtubeUrl,    \* App: form.youtube.url (TRUE: non-empty)
    form,          \* App: useState form (diarization, minSpeakers, maxSpeakers)
    data,          \* useJobPoller: useState data
    error,         \* useJobPoller: useState error
    intervalRef,   \* useJobPoller: TRUE while the interval of intervalRef is live
    polls,         \* GET /jobs/{id} requests in flight (a bag)
    polled,        \* number of GET requests sent by the current effect run
    burns,         \* POST /jobs/{id}/burn requests in flight (a bag)
    submitReq,     \* the submission request in flight, if any
    terminalProcessed, \* history: the current effect run has processed a terminal snapshot
    etaSeconds,    \* App: jobData?.eta_seconds of the render
    etaText        \* App: what the status panel shows as the ETA

vars == <<server, jobId, submitting, submitError, burnState, logs, activeTab,
          localFile, youtubeUrl, form, data, error, intervalRef, polls, polled,
          burns, submitReq, terminalProcessed, etaSeconds, etaText>>

formVars == <<activeTab, localFile, youtubeUrl, form>>
etaVars == <<etaSeconds, etaText>>
pollerVars == <<data, error, intervalRef, polls, polled, terminalProcessed>>

Jobs == 1..MaxJobs

NoData == [id |-> NoJob, status |-> "none", progress |-> 0,
           hasLogs |-> FALSE, logs |-> <<>>, results |-> FALSE]

AbsentJob == [status |-> "absent", progress |-> 0, nlogs |-> 0]

\* Job ids are fresh, so a job the client has moved on from is never requested
\* again: its record is not followed any further.
RetiredJob == [status |-> "retired", progress |-> 0, nlogs |-> 0]

NoSubmit ==
    [phase |-> "none", id |-> NoJob, message |-> Null,
     diarization |-> FALSE, min_speakers |-> 0, max_speakers |-> 0]

\* ------------------------------------------------------------- durations
\* A JavaScript value of type `number | null | undefined`. A number of seconds
\* is held in ticks of 1 / TicksPerSecond of a second, so that fractional
\* durations are exact.
Undefined == [kind |-> "undefined", ticks |-> 0]
JsNull == [kind |-> "null", ticks |-> 0]
NaN == [kind |-> "NaN", ticks |-> 0]
Number(ticks) == [kind |-> "number", ticks |-> ticks]

\* `value ?? fallback`
Coalesce(value, fallback) ==
    IF value.kind \in {"undefined", "null"} THEN fallback ELSE value

\* `!value` of a number | null | undefined
Falsy(value) == value.kind # "number" \/ value.ticks = 0

\* Math.floor(x / d) of x ticks, d a whole number of seconds.
FloorDiv(x, d) == x \div (d * TicksPerSecond)

\* x % d of x >= 0 ticks, d a whole number of seconds: in ticks.
Remainder(x, d) == x % (d * TicksPerSecond)

\* Math.round(x) of x ticks: the nearest integer, a half rounded up.
Round(x) == (2 * x + TicksPerSecond) \div (2 * TicksPerSecond)

\* The em dash formatDuration returns for an absent duration.
Placeholder == [absent |-> TRUE, minutes |-> 0, seconds |-> 0]

\* `${minutes}m ${remainingSeconds}s`
DurationText(minutes, remainingSeconds) ==
    [absent |-> FALSE, minutes |-> minutes, seconds |-> remainingSeconds]

\* (mutant) formatDuration without its `seconds <= 0` test.
formatDurationUnsigned(seconds) ==
    IF Falsy(seconds)
    THEN Placeholder
    ELSE DurationText(FloorDiv(seconds.ticks, SecondsPerMinute),
                      Round(seconds.ticks - SecondsPerMinute * TicksPerSecond
                              * FloorDiv(seconds.ticks, SecondsPerMinute)))

formatDuration(seconds) ==
    IF Falsy(seconds) \/ seconds.kind = "NaN" \/ seconds.ticks <= 0
    THEN Placeholder
    ELSE LET minutes == FloorDiv(seconds.ticks, SecondsPerMinute)
             remainingSeconds == Round(Remainder(seconds.ticks, SecondsPerMinute))
         IN  DurationText(minutes, remainingSeconds)

\* Before the status panel is rendered.
NotRendered == [absent |-> TRUE, minutes |-> -1, seconds |-> -1]

\* The diarization fields of defaultForm.
defaultForm == [diarization |-> FALSE, minSpeakers |-> 1, maxSpeakers |-> 2]

Init ==
    /\ server = [j \in Jobs |-> AbsentJob]
    /\ jobId = NoJob
    /\ submitting = FALSE
    /\ submitError = Null
    /\ burnState = "idle"
    /\ logs = <<>>
    /\ activeTab = "local"
    /\ localFile = FALSE
    /\ youtubeUrl = FALSE
    /\ form = defaultForm
    /\ data = NoData
    /\ error = Null
    /\ intervalRef = FALSE
    /\ polls = EmptyBag
    /\ polled = 0
    /\ burns = EmptyBag
    /\ submitReq = NoSubmit
    /\ terminalProcessed = FALSE
    /\ etaSeconds = Undefined
    /\ etaText = NotRendered

\* ------------------------------------------------------------- backend
\* GET /jobs/{id}: the snapshot of job j.
Snapshot(j) ==
    [id |-> j, status |-> server[j].status, progress |-> server[j].progress,
     hasLogs |-> TRUE, logs |-> ServerLog(server[j].nlogs),
     results |-> (server[j].status = "succeeded")]

clientVars == <<jobId, submitting, submitError, burnState, logs, activeTab,
                localFile, youtubeUrl, form, data, error, intervalRef, polled,
                burns, terminalProcessed>>

\* queued -> running
ServerStart(j) ==
    /\ server[j].status = "queued"
    /\ server' = [server EXCEPT ![j].status = "running"]
    /\ UNCHANGED <<etaVars, clientVars, polls, submitReq>>

\* updateProgress: progress only grows while the job runs
ServerAdvance(j) ==
    /\ server[j].status = "running"
    /\ server[j].progress < MaxProgress
    /\ server' = [server EXCEPT ![j].progress = @ + 1]
    /\ UNCHANGED <<etaVars, clientVars, polls, submitReq>>

\* appendLog: the log is append-only
ServerAppendLog(j, cap) ==
    /\ server[j].status = "running"
    /\ server[j].nlogs < cap
    /\ server' = [server EXCEPT ![j].nlogs = @ + 1]
    /\ UNCHANGED <<etaVars, clientVars, polls, submitReq>>

\* running -> succeeded | failed | cancelled
ServerFinish(j, status) ==
    /\ server[j].status = "running"
    /\ status \in TerminalStatus
    /\ server' = [server EXCEPT ![j].status = status]
    /\ UNCHANGED <<etaVars, clientVars, polls, submitReq>>

\* cancel of a job that has not started: queued -> cancelled
ServerCancelQueued(j) ==
    /\ server[j].status = "queued"
    /\ server' = [server EXCEPT ![j].status = "cancelled"]
    /\ UNCHANGED <<etaVars, clientVars, polls, submitReq>>

\* The backend answers a poll with the job's snapshot at that moment; the
\* response then travels back and is delivered by LoadOk.
ServerAnswerPoll(r) ==
    /\ BagIn(r, polls)
    /\ r.phase = "sent"
    /\ polls' = (polls (-) SetToBag({r})) (+)
                SetToBag({[r EXCEPT !.phase = "ok", !.payload = Snapshot(r.job)]})
    /\ UNCHANGED <<etaVars, server, clientVars, submitReq>>

\* A poll ends in a non-2xx response or a network error.
PollErrors == {"job lookup failed"}

ServerFailPoll(r, message) ==
    /\ BagIn(r, polls)
    /\ r.phase = "sent"
    /\ message \in PollErrors
    /\ polls' = (polls (-) SetToBag({r})) (+)
                SetToBag({[r EXCEPT !.phase = "fail", !.message = message]})
    /\ UNCHANGED <<etaVars, server, clientVars, submitReq>>

\* POST /api/transcribe[/youtube] accepted: create(config, input) -> Job (queued)
ServerAcceptSubmit ==
    /\ submitReq.phase = "sent"
    /\ \E j \in Jobs :
         /\ server[j].status = "absent"
         /\ \A k \in Jobs : k < j => server[k].status # "absent"
         /\ server' = [server EXCEPT ![j].status = "queued"]
         /\ submitReq' = [submitReq EXCEPT !.phase = "ok", !.id = j]
    /\ UNCHANGED <<etaVars, clientVars, polls>>

SubmitErrors == {"upload rejected"}

\* The submission ends in a non-2xx response or a network error.
ServerRejectSubmit(message) ==
    /\ submitReq.phase = "sent"
    /\ message \in SubmitErrors
    /\ submitReq' = [submitReq EXCEPT !.phase = "fail", !.message = message]
    /\ UNCHANGED <<etaVars, server, clientVars, polls>>

BurnErrors == {"burn rejected"}

\* POST /jobs/{id}/burn answered 2xx: the BurnTask ran.
ServerAcceptBurn(b) ==
    /\ BagIn(b, burns)
    /\ b.phase = "sent"
    /\ burns' = (burns (-) SetToBag({b})) (+) SetToBag({[b EXCEPT !.phase = "ok"]})
    /\ UNCHANGED <<etaVars, server, jobId, submitting, submitError, burnState, logs,
                   formVars, pollerVars, submitReq>>

\* The burn request ends in a non-2xx response or a network error.
ServerRejectBurn(b, message) ==
    /\ BagIn(b, burns)
    /\ b.phase = "sent"
    /\ message \in BurnErrors
    /\ burns' = (burns (-) SetToBag({b})) (+)
                SetToBag({[b EXCEPT !.phase = "fail", !.message = message]})
    /\ UNCHANGED <<etaVars, server, jobId, submitting, submitError, burnState, logs,
                   formVars, pollerVars, submitReq>>

\* ---------------------------------------------------------------- form
SetActiveTab(tab) ==
    /\ tab \in {"local", "youtube"}
    /\ tab # activeTab
    /\ activeTab' = tab
    /\ UNCHANGED <<etaVars, server, jobId, submitting, submitError, burnState, logs,
                   localFile, youtubeUrl, form, pollerVars, burns, submitReq>>

SetLocalFile(file) ==
    /\ file \in BOOLEAN
    /\ activeTab = "local"
    /\ file # localFile
    /\ localFile' = file
    /\ UNCHANGED <<etaVars, server, jobId, submitting, submitError, burnState, logs,
                   activeTab, youtubeUrl, form, pollerVars, burns, submitReq>>

SetYoutubeUrl(url) ==
    /\ url \in BOOLEAN
    /\ activeTab = "youtube"
    /\ url # youtubeUrl
    /\ youtubeUrl' = url
    /\ UNCHANGED <<etaVars, server, jobId, submitting, submitError, burnState, logs,
                   activeTab, localFile, form, pollerVars, burns, submitReq>>

\* What a speakers field can hold when its change event fires: nothing that
\* parses as a number (the empty string), or the numeral of -1, 0, 1, ...
InputTexts == {""} \cup {ToString(n) : n \in -1..MaxSpeakers}

\* Number.parseInt(text, 10) of a text of at most two characters: the set that
\* holds the integer, empty for NaN. ToString(n) is the decimal numeral of n,
\* as Number.prototype.toString yields.
ParseInt(text) == {n \in -9..9 : ToString(n) = text}

\* `parsed || fallback`: NaN and 0 are falsy.
OrElse(parsed, fallback) ==
    IF parsed = {} \/ parsed = {0} THEN fallback ELSE CHOOSE n \in parsed : TRUE

ensureNumber(value, fallback) ==
    LET parsed == ParseInt(value)
    IN  IF parsed # {} THEN CHOOSE n \in parsed : TRUE ELSE fallback

\* The diarization checkbox: handleInputChange('diarization', checked).
SetDiarization(checked) ==
    /\ checked \in BOOLEAN
    /\ checked # form.diarization
    /\ form' = [form EXCEPT !.diarization = checked]
    /\ UNCHANGED <<etaVars, server, jobId, submitting, submitError, burnState, logs,
                   activeTab, localFile, youtubeUrl, pollerVars, burns, submitReq>>

\* The min-speakers field, disabled unless diarization is checked.
SetMinSpeakers(text) ==
    /\ text \in InputTexts
    /\ form.diarization
    /\ form' = [form EXCEPT !.minSpeakers = OrElse(ParseInt(text), 1)]
    /\ UNCHANGED <<etaVars, server, jobId, submitting, submitError, burnState, logs,
                   activeTab, localFile, youtubeUrl, pollerVars, burns, submitReq>>

\* The max-speakers field, disabled unless diarization is checked.
SetMaxSpeakers(text) ==
    /\ text \in InputTexts
    /\ form.diarization
    /\ form' = [form EXCEPT !.maxSpeakers = OrElse(ParseInt(text), 2)]
    /\ UNCHANGED <<etaVars, server, jobId, submitting, submitError, burnState, logs,
                   activeTab, localFile, youtubeUrl, pollerVars, burns, submitReq>>

\* Constraint validation of the min-speakers field (a disabled field is not
\* validated): min={1} max={ensureNumber(form.maxSpeakers.toString(), 2)}.
MinSpeakersValid ==
    form.diarization =>
        /\ form.minSpeakers >= 1
        /\ form.minSpeakers <= ensureNumber(ToString(form.maxSpeakers), 2)

\* Constraint validation of the max-speakers field:
\* min={ensureNumber(form.minSpeakers.toString(), 1)}.
MaxSpeakersValid ==
    form.diarization =>
        form.maxSpeakers >= ensureNumber(ToString(form.minSpeakers), 1)

\* (mutant) the speakers fields carry no max and no dependent min attribute.
FormValidNoRange == form.diarization => form.minSpeakers >= 1

\* The browser raises the submit event of <form onSubmit={handleSubmit}> only
\* when every enabled field satisfies its constraints.
FormValid == MinSpeakersValid /\ MaxSpeakersValid

\* ----------------------------------------------------------- handleSubmit
\* The message of the Error thrown before any request is sent, or Null.
ValidationError ==
    IF activeTab = "local"
    THEN IF ~localFile THEN "Please choose a file" ELSE Null
    ELSE IF ~youtubeUrl THEN "YouTube URL is required" ELSE Null

\* The request handleSubmit sends: the FormData of POST /api/transcribe or the
\* JSON body of POST /api/transcribe/youtube, which carry the same three fields.
SubmitRequest ==
    [phase |-> "sent", id |-> NoJob, message |-> Null,
     diarization |-> form.diarization,
     min_speakers |-> form.minSpeakers,
     max_speakers |-> form.maxSpeakers]

\* (mutant) the submit button stays enabled while a submission is in flight.
HandleSubmitAnytime ==
    /\ activeTab = "youtube" => youtubeUrl
    /\ FormValid
    /\ burnState' = "idle"
    /\ IF ValidationError # Null
       THEN /\ submitError' = ValidationError
            /\ submitting' = FALSE
            /\ UNCHANGED submitReq
       ELSE /\ submitError' = Null
            /\ submitting' = TRUE
            /\ submitReq' = SubmitRequest
    /\ UNCHANGED <<etaVars, server, jobId, logs, formVars, pollerVars, burns>>

\* handleSubmit up to its first await (or through catch/finally when it throws).
\* The submit button is disabled while submitting; the url input is `required`,
\* so the browser does not raise the submit event with an empty url, nor with a
\* speakers field out of its range.
HandleSubmit ==
    /\ ~submitting
    /\ activeTab = "youtube" => youtubeUrl
    /\ FormValid
    /\ burnState' = "idle"
    /\ IF ValidationError # Null
       THEN /\ submitError' = ValidationError
            /\ submitting' = FALSE
            /\ UNCHANGED submitReq
       ELSE /\ submitError' = Null
            /\ submitting' = TRUE
            /\ submitReq' = SubmitRequest
    /\ UNCHANGED <<etaVars, server, jobId, logs, formVars, pollerVars, burns>>

\* The request load() sends for job j: fetch(`/jobs/${jobId}`).
PollRequest(j) == [job |-> j, phase |-> "sent", payload |-> NoData, message |-> Null]

\* handleSubmit after a 2xx response: setJobId, setLogs([]), finally; the new
\* jobId re-runs the poller effect: its cleanup aborts the requests in flight
\* and clears the interval, its body calls load() and sets a new interval.
SubmitOk ==
    /\ submitReq.phase = "ok"
    /\ jobId' = submitReq.id
    /\ logs' = <<>>
    /\ submitting' = FALSE
    /\ submitReq' = NoSubmit
    /\ IF submitReq.id # jobId
       THEN /\ polls' = SetToBag({PollRequest(submitReq.id)})
            /\ polled' = 1
            /\ intervalRef' = TRUE
            /\ terminalProcessed' = FALSE
            /\ server' = [j \in Jobs |-> IF j = jobId THEN RetiredJob ELSE server[j]]
       ELSE UNCHANGED <<server, polls, polled, intervalRef, terminalProcessed>>
    /\ UNCHANGED <<etaVars, submitError, burnState, formVars, data, error, burns>>

\* (mutant) the catch block of handleSubmit also deselects the job and drops
\* its logs.
SubmitFailDropsJob ==
    /\ submitReq.phase = "fail"
    /\ submitError' = submitReq.message
    /\ submitting' = FALSE
    /\ submitReq' = NoSubmit
    /\ jobId' = NoJob
    /\ logs' = <<>>
    /\ UNCHANGED <<etaVars, server, burnState, formVars, pollerVars, burns>>

\* handleSubmit after a non-2xx response or a rejected fetch: catch, finally.
SubmitFail ==
    /\ submitReq.phase = "fail"
    /\ submitError' = submitReq.message
    /\ submitting' = FALSE
    /\ submitReq' = NoSubmit
    /\ UNCHANGED <<etaVars, server, jobId, burnState, logs, formVars, pollerVars, burns>>

\* ------------------------------------------------------------ useJobPoller
\* window.setInterval(load, 2000) fires: load() up to its await of fetch.
Tick ==
    /\ intervalRef
    /\ jobId # NoJob
    /\ BagCardinality(polls) < MaxPolls
    /\ polled < MaxPolled
    /\ polled' = polled + 1
    /\ polls' = polls (+) SetToBag({PollRequest(jobId)})
    /\ UNCHANGED <<etaVars, server, jobId, submitting, submitError, burnState, logs,
                   formVars, data, error, intervalRef, terminalProcessed,
                   burns, submitReq>>

\* (mutant) load() never clears the interval.
IntervalNeverCleared(status) == intervalRef

\* The interval after load() has handled a 2xx response of the given status:
\* window.clearInterval(intervalRef.current) on a terminal status.
IntervalAfterLoad(status) ==
    IF StopsPolling(status) THEN FALSE ELSE intervalRef

\* load() after a 2xx response: setData(payload), setError(null), the
\* clearInterval on a terminal status; then the effects of App that depend on
\* what changed: the logs merge effect (jobData.logs is a new array) and the
\* jobError effect (which does nothing for a null error).
LoadOk(r) ==
    /\ BagIn(r, polls)
    /\ r.phase = "ok"
    /\ data' = r.payload
    /\ error' = Null
    /\ intervalRef' = IntervalAfterLoad(r.payload.status)
    /\ terminalProcessed' = (terminalProcessed \/ IsTerminal(r.payload.status))
    /\ logs' = IF r.payload.hasLogs THEN MergeLogs(logs, r.payload.logs) ELSE logs
    /\ polls' = polls (-) SetToBag({r})
    /\ UNCHANGED <<etaVars, server, jobId, submitting, submitError, burnState, formVars,
                   polled, burns, submitReq>>

\* (mutant) the catch block of load() also clears the interval.
LoadFailClearsInterval(r) ==
    /\ BagIn(r, polls)
    /\ r.phase = "fail"
    /\ error' = r.message
    /\ submitError' = IF r.message # error /\ r.message # "" /\ r.message # Null
                      THEN r.message ELSE submitError
    /\ intervalRef' = FALSE
    /\ polls' = polls (-) SetToBag({r})
    /\ UNCHANGED <<etaVars, server, jobId, submitting, burnState, logs, formVars,
                   data, polled, terminalProcessed, burns, submitReq>>

\* load() after a non-2xx response or a rejected fetch: setError(message); the
\* jobError effect of App copies a changed, non-empty error into submitError.
LoadFail(r) ==
    /\ BagIn(r, polls)
    /\ r.phase = "fail"
    /\ error' = r.message
    /\ submitError' = IF r.message # error /\ r.message # "" /\ r.message # Null
                      THEN r.message ELSE submitError
    /\ polls' = polls (-) SetToBag({r})
    /\ UNCHANGED <<etaVars, server, jobId, submitting, burnState, logs, formVars, data,
                   intervalRef, polled, terminalProcessed, burns, submitReq>>

\* -------------------------------------------------------------- handleBurn
\* ResultCard renders its button only for a snapshot that has results, and
\* disables it while burnState is 'running'.
BurnButtonEnabled ==
    /\ data # NoData
    /\ data.results
    /\ burnState # "running"

\* The request handleBurn sends for job j: fetch(`/jobs/${jobId}/burn`).
BurnRequest(j) == [job |-> j, phase |-> "sent", message |-> Null]

\* handleBurn up to its await of fetch.
HandleBurn ==
    /\ BurnButtonEnabled
    /\ IF jobId = NoJob
       THEN UNCHANGED <<burnState, burns>>
       ELSE /\ BagCardinality(burns) < MaxBurns
            /\ burnState' = "running"
            /\ burns' = burns (+) SetToBag({BurnRequest(jobId)})
    /\ UNCHANGED <<etaVars, server, jobId, submitting, submitError, logs, formVars,
                   pollerVars, submitReq>>

\* handleBurn after a 2xx response to burn request b.
BurnOk(b) ==
    /\ BagIn(b, burns)
    /\ b.phase = "ok"
    /\ burnState' = "done"
    /\ burns' = burns (-) SetToBag({b})
    /\ UNCHANGED <<etaVars, server, jobId, submitting, submitError, logs, formVars,
                   pollerVars, submitReq>>

\* (mutant) the catch block of handleBurn also drops the accumulated logs.
BurnFailClearsLogs(b) ==
    /\ BagIn(b, burns)
    /\ b.phase = "fail"
    /\ submitError' = b.message
    /\ burnState' = "idle"
    /\ logs' = <<>>
    /\ burns' = burns (-) SetToBag({b})
    /\ UNCHANGED <<etaVars, server, jobId, submitting, formVars, pollerVars, submitReq>>

\* handleBurn after a non-2xx response or a rejected fetch to burn request b:
\* the catch block.
BurnFail(b) ==
    /\ BagIn(b, burns)
    /\ b.phase = "fail"
    /\ submitError' = b.message
    /\ burnState' = "idle"
    /\ burns' = burns (-) SetToBag({b})
    /\ UNCHANGED <<etaVars, server, jobId, submitting, logs, formVars, pollerVars,
                   submitReq>>

\* ------------------------------------------------------------ specification
\* The whole client against the backend. Its state space is the product of the
\* poller, the burn handlers, the form and the log, so the properties below are
\* checked on SpecPoller, SpecBurn, SpecForm, SpecLogs, SpecMerge and SpecLive,
\* each of which takes the actions that touch the state its properties read;
\* formatDuration is checked on SpecDuration.
Next ==
    \/ \E j \in Jobs : ServerStart(j)
    \/ \E j \in Jobs : ServerAdvance(j)
    \/ \E j \in Jobs : ServerAppendLog(j, MaxLog)
    \/ \E j \in Jobs, status \in TerminalStatus : ServerFinish(j, status)
    \/ \E j \in Jobs : ServerCancelQueued(j)
    \/ \E r \in BagToSet(polls) : ServerAnswerPoll(r)
    \/ \E r \in BagToSet(polls), message \in PollErrors : ServerFailPoll(r, message)
    \/ ServerAcceptSubmit
    \/ \E message \in SubmitErrors : ServerRejectSubmit(message)
    \/ \E tab \in {"local", "youtube"} : SetActiveTab(tab)
    \/ \E file \in BOOLEAN : SetLocalFile(file)
    \/ \E url \in BOOLEAN : SetYoutubeUrl(url)
    \/ \E checked \in BOOLEAN : SetDiarization(checked)
    \/ \E text \in InputTexts : SetMinSpeakers(text)
    \/ \E text \in InputTexts : SetMaxSpeakers(text)
    \/ HandleSubmit
    \/ SubmitOk
    \/ SubmitFail
    \/ Tick
    \/ \E r \in BagToSet(polls) : LoadOk(r)
    \/ \E r \in BagToSet(polls) : LoadFail(r)
    \/ HandleBurn
    \/ \E b \in BagToSet(burns) : ServerAcceptBurn(b)
    \/ \E b \in BagToSet(burns), message \in BurnErrors : ServerRejectBurn(b, message)
    \/ \E b \in BagToSet(burns) : BurnOk(b)
    \/ \E b \in BagToSet(burns) : BurnFail(b)

Spec == Init /\ [][Next]_vars

\* The poller and the submissions that select its job: every action but the
\* burn handlers, the log appends and the edits of the tab and the url, all of
\* which leave the poller's state and the requests of the poller unchanged.
NextPoller ==
    \/ \E j \in Jobs : ServerStart(j)
    \/ \E j \in Jobs : ServerAdvance(j)
    \/ \E j \in Jobs, status \in TerminalStatus : ServerFinish(j, status)
    \/ \E j \in Jobs : ServerCancelQueued(j)
    \/ \E r \in BagToSet(polls) : ServerAnswerPoll(r)
    \/ \E r \in BagToSet(polls), message \in PollErrors : ServerFailPoll(r, message)
    \/ ServerAcceptSubmit
    \/ \E message \in SubmitErrors : ServerRejectSubmit(message)
    \/ \E file \in BOOLEAN : SetLocalFile(file)
    \/ HandleSubmit
    \/ SubmitOk
    \/ SubmitFail
    \/ Tick
    \/ \E r \in BagToSet(polls) : LoadOk(r)
    \/ \E r \in BagToSet(polls) : LoadFail(r)

SpecPoller == Init /\ [][NextPoller]_vars

\* The burn handlers with the submissions and the first poll of each job that
\* enable them, for jobs that succeed.
NextBurn ==
    \/ \E j \in Jobs : ServerStart(j)
    \/ \E j \in Jobs : ServerAppendLog(j, MaxLog)
    \/ \E j \in Jobs : ServerFinish(j, "succeeded")
    \/ \E r \in BagToSet(polls) : ServerAnswerPoll(r)
    \/ ServerAcceptSubmit
    \/ \E message \in SubmitErrors : ServerRejectSubmit(message)
    \/ \E file \in BOOLEAN : SetLocalFile(file)
    \/ HandleSubmit
    \/ SubmitOk
    \/ SubmitFail
    \/ \E r \in BagToSet(polls) : LoadOk(r)
    \/ HandleBurn
    \/ \E b \in BagToSet(burns) : ServerAcceptBurn(b)
    \/ \E b \in BagToSet(burns), message \in BurnErrors : ServerRejectBurn(b, message)
    \/ \E b \in BagToSet(burns) : BurnOk(b)
    \/ \E b \in BagToSet(burns) : BurnFail(b)

SpecBurn == Init /\ [][NextBurn]_vars

\* The form and handleSubmit: every edit of the form, and the submissions.
NextForm ==
    \/ \E tab \in {"local", "youtube"} : SetActiveTab(tab)
    \/ \E file \in BOOLEAN : SetLocalFile(file)
    \/ \E url \in BOOLEAN : SetYoutubeUrl(url)
    \/ \E checked \in BOOLEAN : SetDiarization(checked)
    \/ \E text \in InputTexts : SetMinSpeakers(text)
    \/ \E text \in InputTexts : SetMaxSpeakers(text)
    \/ HandleSubmit
    \/ ServerAcceptSubmit
    \/ \E message \in SubmitErrors : ServerRejectSubmit(message)
    \/ SubmitOk
    \/ SubmitFail

SpecForm == Init /\ [][NextForm]_vars

\* formatDuration on every eta_seconds a snapshot may carry: absent, null,
\* NaN, and the multiples of a quarter second from -1 s to MaxSeconds.
EtaValues ==
    {Undefined, JsNull, NaN}
        \cup {Number(t) : t \in (-TicksPerSecond)..(MaxSeconds * TicksPerSecond)}

InitDuration ==
    /\ server = [j \in Jobs |-> AbsentJob]
    /\ jobId = NoJob
    /\ submitting = FALSE
    /\ submitError = Null
    /\ burnState = "idle"
    /\ logs = <<>>
    /\ activeTab = "local"
    /\ localFile = FALSE
    /\ youtubeUrl = FALSE
    /\ form = defaultForm
    /\ data = NoData
    /\ error = Null
    /\ intervalRef = FALSE
    /\ polls = EmptyBag
    /\ polled = 0
    /\ burns = EmptyBag
    /\ submitReq = NoSubmit
    /\ terminalProcessed = FALSE
    /\ etaSeconds \in EtaValues
    /\ etaText = NotRendered

\* The status panel renders formatDuration(jobData?.eta_seconds ?? null).
RenderEta ==
    /\ etaText = NotRendered
    /\ etaText' = formatDuration(Coalesce(etaSeconds, JsNull))
    /\ UNCHANGED <<server, jobId, submitting, submitError, burnState, logs,
                   formVars, pollerVars, burns, submitReq, etaSeconds>>

NextDuration == RenderEta

SpecDuration == InitDuration /\ [][NextDuration]_vars

\* The logs merge effect under an append-only server log that outgrows the
\* window: job 1 is selected and running, its log one entry short of the
\* window, the first request of the poller in flight.
InitLogs ==
    /\ server = [j \in Jobs |->
                   IF j = 1
                   THEN [status |-> "running", progress |-> 0, nlogs |-> LogWindow - 1]
                   ELSE AbsentJob]
    /\ jobId = 1
    /\ submitting = FALSE
    /\ submitError = Null
    /\ burnState = "idle"
    /\ logs = <<>>
    /\ activeTab = "local"
    /\ localFile = TRUE
    /\ youtubeUrl = FALSE
    /\ form = defaultForm
    /\ data = NoData
    /\ error = Null
    /\ intervalRef = TRUE
    /\ polls = SetToBag({PollRequest(1)})
    /\ polled = 1
    /\ burns = EmptyBag
    /\ submitReq = NoSubmit
    /\ terminalProcessed = FALSE
    /\ etaSeconds = Undefined
    /\ etaText = NotRendered

NextLogs ==
    \/ \E j \in Jobs : ServerAppendLog(j, LogWindow + MaxExtraLog)
    \/ \E j \in Jobs, status \in TerminalStatus : ServerFinish(j, status)
    \/ \E r \in BagToSet(polls) : ServerAnswerPoll(r)
    \/ Tick
    \/ \E r \in BagToSet(polls) : LoadOk(r)

SpecLogs == InitLogs /\ [][NextLogs]_vars

\* Two entries that differ as (timestamp, message) pairs and share a LogKey.
DashEntryA == [timestamp |-> "t1-x", message |-> "stage"]
DashEntryB == [timestamp |-> "t1", message |-> "x-stage"]

\* Log arrays a response may carry when nothing is assumed of the backend:
\* empty, longer than the window, with repeated entries, out of order, with
\* entries that share a key.
LogArrays ==
    { <<>>,
      ServerLog(LogWindow + 1),
      ServerLog(LogWindow + 1) \o <<Entry(1)>>,
      <<Entry(LogWindow + 2), Entry(2), Entry(LogWindow + 2)>>,
      <<DashEntryA, DashEntryB>>,
      <<DashEntryB, Entry(1), DashEntryA>> }

\* A 2xx response to poll r that carries an arbitrary log array, or none.
AnswerPollWith(r, hasLogs, array) ==
    /\ BagIn(r, polls)
    /\ r.phase = "sent"
    /\ hasLogs \in BOOLEAN
    /\ array \in LogArrays
    /\ ~hasLogs => array = <<>>
    /\ polls' = (polls (-) SetToBag({r})) (+)
                SetToBag({[r EXCEPT !.phase = "ok",
                                    !.payload = [Snapshot(r.job) EXCEPT
                                                    !.hasLogs = hasLogs,
                                                    !.logs = array]]})
    /\ UNCHANGED <<etaVars, server, clientVars, submitReq>>

NextMerge ==
    \/ \E r \in BagToSet(polls), hasLogs \in BOOLEAN, array \in LogArrays :
          AnswerPollWith(r, hasLogs, array)
    \/ Tick
    \/ \E r \in BagToSet(polls) : LoadOk(r)

SpecMerge == InitLogs /\ [][NextMerge]_vars

\* The state after the first submission has succeeded: job 1 is queued and
\* selected, the first request of the poller is in flight.
InitLive ==
    /\ server = [j \in Jobs |->
                   IF j = 1
                   THEN [status |-> "queued", progress |-> 0, nlogs |-> 0]
                   ELSE AbsentJob]
    /\ jobId = 1
    /\ submitting = FALSE
    /\ submitError = Null
    /\ burnState = "idle"
    /\ logs = <<>>
    /\ activeTab = "local"
    /\ localFile = TRUE
    /\ youtubeUrl = FALSE
    /\ form = defaultForm
    /\ data = NoData
    /\ error = Null
    /\ intervalRef = TRUE
    /\ polls = SetToBag({PollRequest(1)})
    /\ polled = 1
    /\ burns = EmptyBag
    /\ submitReq = NoSubmit
    /\ terminalProcessed = FALSE
    /\ etaSeconds = Undefined
    /\ etaText = NotRendered

\* The poller of one selected job whose requests are all answered in the end,
\* with a snapshot or with an error: the interval keeps firing while it is set,
\* every request in flight gets a response, and load() resumes on every response.
NextLive ==
    \/ \E j \in Jobs : ServerStart(j)
    \/ \E j \in Jobs : ServerAdvance(j)
    \/ \E j \in Jobs, status \in TerminalStatus : ServerFinish(j, status)
    \/ \E r \in BagToSet(polls) : ServerAnswerPoll(r)
    \/ \E r \in BagToSet(polls), message \in PollErrors : ServerFailPoll(r, message)
    \/ Tick
    \/ \E r \in BagToSet(polls) : LoadOk(r)
    \/ \E r \in BagToSet(polls) : LoadFail(r)

SpecLive ==
    /\ InitLive
    /\ [][NextLive]_vars
    /\ WF_vars(Tick)
    /\ WF_vars(\/ \E r \in BagToSet(polls) : ServerAnswerPoll(r)
               \/ \E r \in BagToSet(polls), message \in PollErrors :
                     ServerFailPoll(r, message))
    /\ WF_vars(\E r \in BagToSet(polls) : LoadOk(r))
    /\ WF_vars(\E r \in BagToSet(polls) : LoadFail(r))

\* ------------------------------------------------------------------ claims
\* A step in which load() handles the 2xx response r.
Handles(r) == BagIn(r, polls) /\ r.phase = "ok" /\ polls' = polls (-) SetToBag({r})

\* A step in which a GET /jobs/{id} request is sent.
IssuesPoll ==
    \E j \in Jobs : CopiesIn(PollRequest(j), polls') > CopiesIn(PollRequest(j), polls)

\* C1: of two snapshots of one job that the poller exposes in succession, both
\* running, the later one's progress is not below the earlier one's.
C1_ProgressNeverDecreases ==
    [][(/\ data # NoData
        /\ data'.id = data.id
        /\ data.status = "running"
        /\ data'.status = "running") => data'.progress >= data.progress]_vars

\* C2: once the poller has exposed a terminal snapshot of a job, the next
\* snapshot it exposes of that job is terminal too.
C2_TerminalStaysTerminal ==
    [][(IsTerminal(data.status) /\ data'.id = data.id) => IsTerminal(data'.status)]_vars

\* C3: once the poller has handled a terminal snapshot, the interval is cleared
\* and no GET /jobs/{id} is sent until the job id changes.
C3_NoPollAfterTerminal ==
    [][(terminalProcessed /\ jobId' = jobId) => (~intervalRef /\ ~IssuesPoll)]_vars

\* C3 witness: a terminal snapshot has been handled while the poller could still
\* have sent a request and an earlier request is yet to be answered.
C3_Witness ==
    /\ terminalProcessed
    /\ jobId # NoJob
    /\ BagCardinality(polls) = 1
    /\ BagCardinality(polls) < MaxPolls
    /\ polled < MaxPolled

\* C10: when load() handles a snapshot whose status is failed, the error shown
\* to the user (submitError) is non-empty afterwards.
C10_FailedJobShowsError ==
    [][\A r \in BagToSet(polls) :
          (Handles(r) /\ r.payload.status = "failed")
              => (submitError' # Null /\ submitError' # "")]_vars

\* The burn requests in flight for job j.
RECURSIVE CopiesOfAll(_, _)
CopiesOfAll(bag, elems) ==
    IF elems = {} THEN 0
    ELSE LET e == CHOOSE x \in elems : TRUE
         IN  CopiesIn(e, bag) + CopiesOfAll(bag, elems \ {e})

BurnsInFlight(j) == CopiesOfAll(burns, {b \in BagToSet(burns) : b.job = j})

\* C6: at most one burn request is in flight for a job id.
C6_OneBurnInFlight == \A j \in Jobs : BurnsInFlight(j) <= 1

\* C7: burnState moves only idle -> running, running -> done, or running -> idle
\* with the burn's error message shown; from done it does not return to running
\* while the job is the same.
C7_BurnStateMachine ==
    [][\/ burnState' = burnState
       \/ burnState = "idle" /\ burnState' = "running"
       \/ burnState = "running" /\ burnState' = "done"
       \/ burnState = "running" /\ burnState' = "idle" /\ submitError' \in BurnErrors
       \/ jobId' # jobId /\ burnState' = "idle"]_vars

\* C8: a burn request is sent only for a job id whose latest snapshot received
\* by the client has status succeeded and carries result links.
C8_BurnOnlySucceeded ==
    [][\A j \in Jobs :
          CopiesIn(BurnRequest(j), burns') > CopiesIn(BurnRequest(j), burns)
              => (data.id = j /\ data.status = "succeeded" /\ data.results)]_vars

\* C9: the step that handles a failed burn response leaves the selected job
\* id, the polled snapshot and the accumulated logs unchanged; it sets the
\* displayed error to the failure's message and burnState to idle.
C9_BurnFailureFrame ==
    [][\A b \in BagToSet(burns) :
          (b.phase = "fail" /\ burns' = burns (-) SetToBag({b}))
              => /\ jobId' = jobId
                 /\ data' = data
                 /\ logs' = logs
                 /\ submitError' = b.message
                 /\ submitError' # ""
                 /\ burnState' = "idle"
                 /\ UNCHANGED <<submitting, error, intervalRef, polls, server>>]_vars

\* C9 witness: a burn request has failed and its response is about to be
\* handled while the client holds a succeeded snapshot and a non-empty log.
C9_Witness ==
    /\ \E b \in BagToSet(burns) : b.phase = "fail"
    /\ burnState = "running"
    /\ data.status = "succeeded"
    /\ logs # <<>>
    /\ submitError = Null

\* The first occurrence of every (timestamp, message) pair of a log, in order.
RECURSIVE Distinct(_)
Distinct(log) ==
    IF log = <<>> THEN <<>>
    ELSE LET front == Distinct(SubSeq(log, 1, Len(log) - 1))
             last == log[Len(log)]
         IN  IF \E i \in 1..Len(front) : front[i] = last
             THEN front ELSE Append(front, last)

\* C4: the displayed log list is the most recent min(30, n) distinct entries
\* of the server log, in append order, for a length n the log has had.
C4_LogsAreLatestWindow ==
    jobId # NoJob =>
        \E n \in 0..server[jobId].nlogs :
            logs = SliceLast(Distinct(ServerLog(n)), LogWindow)

\* C5: the displayed log list has at most 30 entries and no two of them have
\* the same (timestamp, message) pair.
C5_LogsBoundedAndDistinct ==
    /\ Len(logs) <= LogWindow
    /\ \A i, k \in 1..Len(logs) : i # k => logs[i] # logs[k]

\* C5 witness: the list is full after merging an array that is longer than the
\* window and repeats an entry.
C5_Witness ==
    /\ Len(logs) = LogWindow
    /\ Len(data.logs) > LogWindow
    /\ \E i, k \in 1..Len(data.logs) : i # k /\ data.logs[i] = data.logs[k]

\* A step in which handleSubmit handles the failed response of its submission.
HandlesSubmitFailure == submitReq.phase = "fail" /\ submitReq' = NoSubmit

\* C11: the step that handles a failed submission sets the displayed error to
\* the response's message and leaves the selected job id, the polled snapshot
\* and the accumulated logs unchanged; no poll request is sent and the state of
\* the polling interval is unchanged.
C11_SubmitFailureFrame ==
    [][HandlesSubmitFailure
          => /\ submitError' = submitReq.message
             /\ jobId' = jobId
             /\ data' = data
             /\ logs' = logs
             /\ polls' = polls
             /\ intervalRef' = intervalRef]_vars

\* C11 witness: a submission has failed and its response is about to be handled
\* while a job is selected, a snapshot of it is held and its log is non-empty.
C11_Witness ==
    /\ submitReq.phase = "fail"
    /\ jobId # NoJob
    /\ data # NoData
    /\ data.id = jobId
    /\ logs # <<>>

\* C12: a submission request that carries diarization enabled carries
\* min_speakers <= max_speakers, whatever edits of the two speakers fields and
\* of the diarization checkbox came before it.
C12_SpeakersOrdered ==
    (submitReq.phase # "none" /\ submitReq.diarization)
        => submitReq.min_speakers <= submitReq.max_speakers

\* C12 witness: a request with diarization enabled and edited speakers numbers
\* is in flight, and the fields have since been edited to min > max.
C12_Witness ==
    /\ submitReq.phase = "sent"
    /\ submitReq.diarization
    /\ submitReq.min_speakers > defaultForm.minSpeakers
    /\ submitReq.max_speakers > defaultForm.maxSpeakers
    /\ form.diarization
    /\ form.minSpeakers > form.maxSpeakers

\* The input of the rendered ETA is a positive number of seconds.
PositiveEta == etaSeconds.kind = "number" /\ etaSeconds.ticks > 0

\* C13: the ETA shown is never a negative duration: for an eta_seconds that is
\* missing, null, NaN, zero or negative it is the placeholder, and for a
\* positive one both the minutes and the seconds shown are non-negative.
C13_EtaNeverNegative ==
    etaText # NotRendered =>
        IF PositiveEta
        THEN ~etaText.absent /\ etaText.minutes >= 0 /\ etaText.seconds >= 0
        ELSE etaText = Placeholder

\* C13 witness: a positive fractional ETA of more than a minute is shown.
C13_Witness ==
    /\ etaText # NotRendered
    /\ PositiveEta
    /\ etaSeconds.ticks % TicksPerSecond # 0
    /\ etaText.minutes >= 1
    /\ etaText.seconds >= 1

\* C18: for a positive duration the seconds shown lie in 0..59, and the
\* duration shown, minutes * 60 + seconds, differs from the input by less than
\* one second.
C18_SecondsWithinMinute ==
    (etaText # NotRendered /\ PositiveEta) =>
        LET shown == (etaText.minutes * SecondsPerMinute + etaText.seconds)
                         * TicksPerSecond
        IN  /\ etaText.seconds \in 0..(SecondsPerMinute - 1)
            /\ shown - etaSeconds.ticks < TicksPerSecond
            /\ etaSeconds.ticks - shown < TicksPerSecond

\* A step in which load() handles the failed response r.
HandlesFailure(r) == BagIn(r, polls) /\ r.phase = "fail" /\ polls' = polls (-) SetToBag({r})

\* The selected job is terminal on the server and the poller can still send a
\* request.
TerminalAndPolling ==
    /\ jobId # NoJob
    /\ IsTerminal(server[jobId].status)
    /\ polled < MaxPolled

\* A poll of the selected job has failed since the job became terminal.
FailedWhileTerminal ==
    /\ jobId # NoJob
    /\ IsTerminal(server[jobId].status)
    /\ \E r \in BagToSet(polls) : r.phase = "fail"

\* C14: polling continues until a terminal snapshot is handled: the interval is
\* set as long as none was handled, and the step that handles a failed poll
\* leaves it as it is; once the selected job is terminal on the server, the
\* poller eventually handles a terminal snapshot and its interval is cleared,
\* unless a poll fails in between.
C14_PollsUntilTerminal ==
    /\ []((jobId # NoJob /\ ~terminalProcessed) => intervalRef)
    /\ [][\A r \in BagToSet(polls) :
             HandlesFailure(r) => intervalRef' = intervalRef]_vars
    /\ TerminalAndPolling ~> ((terminalProcessed /\ ~intervalRef) \/ FailedWhileTerminal)

\* C14 witness: a poll has failed, polling went on, and a terminal snapshot has
\* been handled with no request left in flight.
C14_Witness ==
    /\ submitError \in PollErrors
    /\ terminalProcessed
    /\ ~intervalRef
    /\ polls = EmptyBag
    /\ IsTerminal(data.status)

\* C15: a snapshot exposed by useJobPoller is a snapshot of the selected job:
\* when data is not null, its id is jobId.
C15_SnapshotOfSelectedJob == data # NoData => data.id = jobId

\* C16: burnState is done only on account of a successful burn of the selected
\* job: a step after which burnState is done, and that either set it or changed
\* the selected job, handles the 2xx response of a burn request for the job
\* selected after the step.
C16_DoneMeansBurned ==
    [][(burnState' = "done" /\ (burnState # "done" \/ jobId' # jobId))
          => \E b \in BagToSet(burns) :
                /\ b.phase = "ok"
                /\ b.job = jobId'
                /\ burns' = burns (-) SetToBag({b})]_vars

\* C17: submitting is true exactly while a submission is unfinished (its request
\* sent and its response not yet handled); a submission request is sent only
\* when none is in flight and the flag is false; and the step that ends a
\* submission, with a job id or with an error, leaves the flag false.
C17_SubmittingWhileInFlight ==
    /\ [](submitting <=> submitReq.phase # "none")
    /\ [][(submitReq'.phase = "sent" /\ submitReq.phase # "sent")
             => (~submitting /\ submitReq.phase = "none")]_vars
    /\ [][(submitReq.phase # "none" /\ submitReq'.phase = "none")
             => ~submitting']_vars

\* C17 witness: a second submission is in flight and has failed on the server,
\* after a first one succeeded; the flag is still set.
C17_Witness ==
    /\ submitting
    /\ submitReq.phase = "fail"
    /\ jobId # NoJob

====
